---- MODULE Spec2Model ----
(***************************************************************************)
(* Model of gen/logger.cpp: the process-wide console logger (namespace     *)
(* Logger).  Text is modelled character by character: a string is a        *)
(* sequence of one-character strings, standard output is the sequence of   *)
(* all characters written so far.                                          *)
(***************************************************************************)
EXTENDS Integers, Sequences, FiniteSets, TLC

VARIABLES
    indent_str,   \* static std::string indent_str
    _enabled,     \* static bool _enabled
    stdout,       \* characters written to standard output (printf and std::cout)
    handles,      \* the std::ostream& references cout() has returned so far
    call,         \* the most recent call of the caller: operation, arguments, result
    pc,           \* "running", or "aborted" once undent() has killed the process
    NDEBUG,       \* whether the build compiles assert() out
    saved,        \* caller's view: prefix recorded at each indent() still open
    base,         \* caller's view: prefix at the start of the current enabled stretch
    toggled,      \* caller's view: the last of enable / disable it called ("none" so far)
    trace,        \* caller's view: the calls it has made so far, if it keeps a record
    script        \* the scripted caller: its N and the calls it still has to make

vars == <<indent_str, _enabled, stdout, handles, call, pc, NDEBUG, saved, base, toggled,
          trace, script>>

----------------------------------------------------------------------------
(* Bounds of the exploration *)

\* deepest nesting the free caller builds
MaxDepth == 3
\* the free caller makes an emitting call only while stdout is shorter than this
MaxStdout == 6
\* largest N of the scripted round trip
MaxN == 8
\* most calls of the recording caller that only nests and toggles
MaxCalls == 6
\* most calls of the recording caller that makes every kind of call
MaxTrace == 3

----------------------------------------------------------------------------
(* Text helpers *)

Digits == <<"0", "1", "2", "3", "4", "5", "6", "7", "8", "9">>

\* decimal digits of n >= 0, most significant first (%d of a non-negative int)
RECURSIVE UtoA(_)
UtoA(n) == IF n < 10 THEN <<Digits[n + 1]>>
           ELSE UtoA(n \div 10) \o <<Digits[(n % 10) + 1]>>

\* %d conversion of printf
ItoA(n) == IF n < 0 THEN <<"-">> \o UtoA(0 - n) ELSE UtoA(n)

\* one printf argument: an int (%d) or a C string (%s)
IntArg(n) == [t |-> "d", i |-> n, s |-> <<>>]
StrArg(str) == [t |-> "s", i |-> 0, s |-> str]

\* vprintf(fmt, va): the characters printf writes for a format and its arguments.
\* Ordinary characters are copied, %d and %s consume the next argument, %% is '%'.
\* A format ending in a lone '%' or using another conversion is undefined
\* behaviour in C; no format of Messages and no indent prefix is one, so the last
\* two cases below are never evaluated.
RECURSIVE Vprintf(_, _)
Vprintf(fmt, va) ==
    IF fmt = <<>> THEN <<>>
    ELSE IF Head(fmt) # "%" THEN <<Head(fmt)>> \o Vprintf(Tail(fmt), va)
    ELSE IF Len(fmt) < 2 THEN <<>>
    ELSE IF fmt[2] = "%" THEN <<"%">> \o Vprintf(Tail(Tail(fmt)), va)
    ELSE IF fmt[2] = "d" THEN ItoA(Head(va).i) \o Vprintf(Tail(Tail(fmt)), Tail(va))
    ELSE IF fmt[2] = "s" THEN Head(va).s \o Vprintf(Tail(Tail(fmt)), Tail(va))
    ELSE Vprintf(Tail(Tail(fmt)), va)

\* printf(s) with no arguments: s is used as the format string
Printf(s) == Vprintf(s, <<>>)

----------------------------------------------------------------------------
(* Inputs of the caller *)

\* (format, arguments) pairs passed to print / println / attention; every one is
\* well formed (each conversion has a type-matched argument), as the callers
\* of the logger are required to pass
Msg(fmt, va) == [fmt |-> fmt, va |-> va]
MsgValue == Msg(<<"v", "a", "l", "u", "e", "=", "%", "d">>, <<IntArg(42)>>)
MsgDisk == Msg(<<"d", "i", "s", "k", " ", "f", "u", "l", "l">>, <<>>)
MsgMixed == Msg(<<"%", "s", "%", "%", "%", "d">>, <<StrArg(<<"x">>), IntArg(-7)>>)
Messages == {MsgValue, MsgDisk, MsgMixed}

\* values the caller inserts (operator<<) into a stream cout() returned
Inserted == {StrArg(<<"h", "i">>), IntArg(10)}

\* no message / no handle, for calls that take none
NoMsg == Msg(<<>>, <<>>)
NoHandle == [dest |-> "none", flag |-> FALSE]

Call(op, m, h, ret) == [op |-> op, fmt |-> m.fmt, va |-> m.va, h |-> h, ret |-> ret]

----------------------------------------------------------------------------
(* The logger *)

\* (mutant) indent() appends a one-character token
IndentToken_short == <<"*">>

\* the per-level token appended by indent()
IndentToken == <<"*", " ">>
\* the number of characters undent() takes off the end
UndentLen == 2

\* (mutant) resize() called with one character too many
Resize_off(s, n) == SubSeq(s, 1, n + 1)

\* s.resize(n) for n <= s.size(): the first n characters
Resize(s, n) == SubSeq(s, 1, n)

\* (mutant) the subtraction taken to wrap one token early
Wraps_early(size) == size <= UndentLen

\* indent_str.size()-2 is computed in size_t: below 2 it wraps around to a value
\* above max_size(), and resize() then throws std::length_error
Wraps(size) == size < UndentLen

\* std::ostream& operator<<: the characters inserted for a value
Insert(v) == IF v.t = "d" THEN ItoA(v.i) ELSE v.s

\* the caller moves on to its next scripted call, if it follows a script
Advance(sc) == IF sc.todo = <<>> THEN sc ELSE [sc EXCEPT !.todo = Tail(sc.todo)]

\* a caller that keeps a record appends the call it made, with the value
\* enabled() had when it made it
Log(tr, c, en) ==
    IF tr.on
    THEN [tr EXCEPT !.calls = Append(@, [op |-> c.op, fmt |-> c.fmt, va |-> c.va, h |-> c.h,
                                         ret |-> c.ret, en |-> en])]
    ELSE tr

Init ==
    /\ indent_str = <<>>
    /\ _enabled = FALSE
    /\ stdout = <<>>
    /\ handles = {}
    /\ call = Call("start", NoMsg, NoHandle, "void")
    /\ pc = "running"
    /\ NDEBUG \in BOOLEAN
    /\ saved = <<>>
    /\ base = <<>>
    /\ toggled = "none"

\* (mutant) indent() without the if (_enabled)
indent_ungated ==
    /\ pc = "running"
    /\ script' = Advance(script)
    /\ indent_str' = indent_str \o IndentToken
    /\ saved' = Append(saved, indent_str)
    /\ call' = Call("indent", NoMsg, NoHandle, "void")
    /\ UNCHANGED <<_enabled, stdout, handles, pc, NDEBUG, base, toggled>>
    /\ trace' = Log(trace, call', _enabled)

indent ==
    /\ pc = "running"
    /\ script' = Advance(script)
    /\ IF _enabled
       THEN /\ indent_str' = indent_str \o IndentToken
            /\ saved' = Append(saved, indent_str)
       ELSE UNCHANGED <<indent_str, saved>>
    /\ call' = Call("indent", NoMsg, NoHandle, "void")
    /\ UNCHANGED <<_enabled, stdout, handles, pc, NDEBUG, base, toggled>>
    /\ trace' = Log(trace, call', _enabled)

\* (mutant) undent() that tolerates the empty prefix: if (_enabled && !indent_str.empty())
undent_lenient ==
    /\ pc = "running"
    /\ script' = Advance(script)
    /\ IF _enabled /\ indent_str # <<>>
       THEN /\ indent_str' = Resize(indent_str, Len(indent_str) - UndentLen)
            /\ IF saved # <<>>
               THEN saved' = SubSeq(saved, 1, Len(saved) - 1) /\ base' = base
               ELSE saved' = <<>> /\ base' = indent_str'
       ELSE UNCHANGED <<indent_str, saved, base>>
    /\ call' = Call("undent", NoMsg, NoHandle, "void")
    /\ UNCHANGED <<_enabled, stdout, handles, pc, NDEBUG, toggled>>
    /\ trace' = Log(trace, call', _enabled)

undent ==
    /\ pc = "running"
    /\ script' = Advance(script)
    /\ IF ~_enabled
       THEN /\ call' = Call("undent", NoMsg, NoHandle, "void")
            /\ UNCHANGED <<indent_str, pc, saved, base>>
       ELSE IF ~NDEBUG /\ indent_str = <<>>
       THEN \* assert(!indent_str.empty()) fails: abort()
            /\ pc' = "aborted"
            /\ call' = Call("undent", NoMsg, NoHandle, "assert")
            /\ UNCHANGED <<indent_str, saved, base>>
       ELSE IF Wraps(Len(indent_str))
       THEN \* assert compiled out: resize() throws, nothing catches it
            /\ pc' = "aborted"
            /\ call' = Call("undent", NoMsg, NoHandle, "length_error")
            /\ UNCHANGED <<indent_str, saved, base>>
       ELSE /\ indent_str' = Resize(indent_str, Len(indent_str) - UndentLen)
            /\ call' = Call("undent", NoMsg, NoHandle, "void")
            /\ IF saved # <<>>
               THEN saved' = SubSeq(saved, 1, Len(saved) - 1) /\ base' = base
               ELSE saved' = <<>> /\ base' = indent_str'
            /\ pc' = pc
    /\ UNCHANGED <<_enabled, stdout, handles, NDEBUG, toggled>>
    /\ trace' = Log(trace, call', _enabled)

\* (mutant) std::cout not synchronised with printf: the prefix may still sit in
\* its buffer, so it shows up on standard output or not
cout_unsynced ==
    /\ pc = "running"
    /\ script' = Advance(script)
    /\ IF _enabled
       THEN /\ stdout' \in {stdout, stdout \o indent_str}
            /\ handles' = handles \cup {[dest |-> "std_cout", flag |-> _enabled]}
            /\ call' = Call("cout", NoMsg, [dest |-> "std_cout", flag |-> _enabled], "std_cout")
       ELSE /\ stdout' = stdout
            /\ handles' = handles \cup {[dest |-> "null_out", flag |-> _enabled]}
            /\ call' = Call("cout", NoMsg, [dest |-> "null_out", flag |-> _enabled], "null_out")
    /\ UNCHANGED <<indent_str, _enabled, pc, NDEBUG, saved, base, toggled>>
    /\ trace' = Log(trace, call', _enabled)

cout ==
    /\ pc = "running"
    /\ script' = Advance(script)
    /\ IF _enabled
       THEN /\ stdout' = stdout \o indent_str
            /\ handles' = handles \cup {[dest |-> "std_cout", flag |-> _enabled]}
            /\ call' = Call("cout", NoMsg, [dest |-> "std_cout", flag |-> _enabled], "std_cout")
       ELSE /\ stdout' = stdout
            /\ handles' = handles \cup {[dest |-> "null_out", flag |-> _enabled]}
            /\ call' = Call("cout", NoMsg, [dest |-> "null_out", flag |-> _enabled], "null_out")
    /\ UNCHANGED <<indent_str, _enabled, pc, NDEBUG, saved, base, toggled>>
    /\ trace' = Log(trace, call', _enabled)

\* (mutant) the stream looks at the flag when it is written to, not when cout() ran
insert_current(h, v) ==
    /\ pc = "running"
    /\ script' = Advance(script)
    /\ h \in handles
    /\ IF _enabled
       THEN stdout' = stdout \o Insert(v)
       ELSE stdout' = stdout
    /\ call' = Call("insert", Msg(<<>>, <<v>>), h, "void")
    /\ UNCHANGED <<indent_str, _enabled, handles, pc, NDEBUG, saved, base, toggled>>
    /\ trace' = Log(trace, call', _enabled)

\* the caller inserts v into a stream h that an earlier cout() returned
insert(h, v) ==
    /\ pc = "running"
    /\ script' = Advance(script)
    /\ h \in handles
    /\ IF h.dest = "std_cout"
       THEN stdout' = stdout \o Insert(v)
       ELSE stdout' = stdout
    /\ call' = Call("insert", Msg(<<>>, <<v>>), h, "void")
    /\ UNCHANGED <<indent_str, _enabled, handles, pc, NDEBUG, saved, base, toggled>>
    /\ trace' = Log(trace, call', _enabled)

\* (mutant) println() without the if (_enabled)
println_ungated(m) ==
    /\ pc = "running"
    /\ script' = Advance(script)
    /\ stdout' = stdout \o Printf(indent_str) \o Vprintf(m.fmt, m.va) \o Printf(<<"\n">>)
    /\ call' = Call("println", m, NoHandle, "void")
    /\ UNCHANGED <<indent_str, _enabled, handles, pc, NDEBUG, saved, base, toggled>>
    /\ trace' = Log(trace, call', _enabled)

println(m) ==
    /\ pc = "running"
    /\ script' = Advance(script)
    /\ IF _enabled
       THEN stdout' = stdout \o Printf(indent_str) \o Vprintf(m.fmt, m.va) \o Printf(<<"\n">>)
       ELSE stdout' = stdout
    /\ call' = Call("println", m, NoHandle, "void")
    /\ UNCHANGED <<indent_str, _enabled, handles, pc, NDEBUG, saved, base, toggled>>
    /\ trace' = Log(trace, call', _enabled)

\* (mutant) print() that forgets printf(indent_str.c_str())
print_noprefix(m) ==
    /\ pc = "running"
    /\ script' = Advance(script)
    /\ IF _enabled
       THEN stdout' = stdout \o Vprintf(m.fmt, m.va)
       ELSE stdout' = stdout
    /\ call' = Call("print", m, NoHandle, "void")
    /\ UNCHANGED <<indent_str, _enabled, handles, pc, NDEBUG, saved, base, toggled>>
    /\ trace' = Log(trace, call', _enabled)

print(m) ==
    /\ pc = "running"
    /\ script' = Advance(script)
    /\ IF _enabled
       THEN stdout' = stdout \o Printf(indent_str) \o Vprintf(m.fmt, m.va)
       ELSE stdout' = stdout
    /\ call' = Call("print", m, NoHandle, "void")
    /\ UNCHANGED <<indent_str, _enabled, handles, pc, NDEBUG, saved, base, toggled>>
    /\ trace' = Log(trace, call', _enabled)

\* (mutant) enable() that flips the flag: _enabled = !_enabled
enable_flip ==
    /\ pc = "running"
    /\ script' = Advance(script)
    /\ _enabled' = ~_enabled
    /\ call' = Call("enable", NoMsg, NoHandle, "void")
    /\ saved' = <<>>
    /\ base' = indent_str
    /\ toggled' = "enable"
    /\ UNCHANGED <<indent_str, stdout, handles, pc, NDEBUG>>
    /\ trace' = Log(trace, call', _enabled)

enable ==
    /\ pc = "running"
    /\ script' = Advance(script)
    /\ _enabled' = TRUE
    /\ call' = Call("enable", NoMsg, NoHandle, "void")
    /\ IF _enabled THEN UNCHANGED <<saved, base>>
       ELSE saved' = <<>> /\ base' = indent_str
    /\ toggled' = "enable"
    /\ UNCHANGED <<indent_str, stdout, handles, pc, NDEBUG>>
    /\ trace' = Log(trace, call', _enabled)

\* (mutant) disable() that also clears the prefix
disable_reset ==
    /\ pc = "running"
    /\ script' = Advance(script)
    /\ _enabled' = FALSE
    /\ indent_str' = <<>>
    /\ call' = Call("disable", NoMsg, NoHandle, "void")
    /\ saved' = <<>>
    /\ base' = <<>>
    /\ toggled' = "disable"
    /\ UNCHANGED <<stdout, handles, pc, NDEBUG>>
    /\ trace' = Log(trace, call', _enabled)

\* (mutant) disable() that leaves the flag as it is
disable_noop ==
    /\ pc = "running"
    /\ script' = Advance(script)
    /\ call' = Call("disable", NoMsg, NoHandle, "void")
    /\ toggled' = "disable"
    /\ UNCHANGED <<_enabled, indent_str, stdout, handles, pc, NDEBUG, saved, base>>
    /\ trace' = Log(trace, call', _enabled)

disable ==
    /\ pc = "running"
    /\ script' = Advance(script)
    /\ _enabled' = FALSE
    /\ call' = Call("disable", NoMsg, NoHandle, "void")
    /\ saved' = <<>>
    /\ base' = indent_str
    /\ toggled' = "disable"
    /\ UNCHANGED <<indent_str, stdout, handles, pc, NDEBUG>>
    /\ trace' = Log(trace, call', _enabled)

enabled ==
    /\ pc = "running"
    /\ script' = Advance(script)
    /\ call' = Call("enabled", NoMsg, NoHandle, IF _enabled THEN "true" ELSE "false")
    /\ UNCHANGED <<indent_str, _enabled, stdout, handles, pc, NDEBUG, saved, base, toggled>>
    /\ trace' = Log(trace, call', _enabled)

Attention == <<"*", "*", "*", "A", "T", "T", "E", "N", "T", "I", "O", "N", "*", "*", "*", " ">>

\* (mutant) attention() gated by the flag like println()
attention_gated(m) ==
    /\ pc = "running"
    /\ script' = Advance(script)
    /\ IF _enabled
       THEN stdout' = stdout \o Printf(Attention) \o Vprintf(m.fmt, m.va) \o Printf(<<"\n">>)
       ELSE stdout' = stdout
    /\ call' = Call("attention", m, NoHandle, "void")
    /\ UNCHANGED <<indent_str, _enabled, handles, pc, NDEBUG, saved, base, toggled>>
    /\ trace' = Log(trace, call', _enabled)

attention(m) ==
    /\ pc = "running"
    /\ script' = Advance(script)
    /\ stdout' = stdout \o Printf(Attention) \o Vprintf(m.fmt, m.va) \o Printf(<<"\n">>)
    /\ call' = Call("attention", m, NoHandle, "void")
    /\ UNCHANGED <<indent_str, _enabled, handles, pc, NDEBUG, saved, base, toggled>>
    /\ trace' = Log(trace, call', _enabled)

----------------------------------------------------------------------------
(* The free caller: any call, in any order, within the bounds *)

Room == Len(stdout) < MaxStdout

InitFree == Init /\ script = [n |-> 0, todo |-> <<>>] /\ trace = [on |-> FALSE, calls |-> <<>>]

Next ==
    \/ enable
    \/ disable
    \/ enabled
    \/ (Len(indent_str) < Len(IndentToken) * MaxDepth /\ indent)
    \/ undent
    \/ ((_enabled => Room) /\ cout)
    \/ \E h \in handles, v \in Inserted : (h.dest = "std_cout" => Room) /\ insert(h, v)
    \/ \E m \in Messages : (_enabled => Room) /\ println(m)
    \/ \E m \in Messages : (_enabled => Room) /\ print(m)
    \/ \E m \in Messages : Room /\ attention(m)

Spec == InitFree /\ [][Next]_vars

----------------------------------------------------------------------------
(* The scripted caller: enable(), N nested indent(), N undent(), disable() *)

RoundTrip(n) ==
    <<"enable">> \o [i \in 1..n |-> "indent"] \o [i \in 1..n |-> "undent"] \o <<"disable">>

InitRoundTrip ==
    /\ Init
    /\ \E n \in 0..MaxN : script = [n |-> n, todo |-> RoundTrip(n)]
    /\ trace = [on |-> FALSE, calls |-> <<>>]

NextCall == IF script.todo = <<>> THEN "none" ELSE Head(script.todo)

NextRoundTrip ==
    \/ (NextCall = "enable" /\ enable)
    \/ (NextCall = "indent" /\ indent)
    \/ (NextCall = "undent" /\ undent)
    \/ (NextCall = "disable" /\ disable)

SpecRoundTrip == InitRoundTrip /\ [][NextRoundTrip]_vars

----------------------------------------------------------------------------
(* The recording callers: they keep the sequence of calls they have made *)

InitLogged == Init /\ script = [n |-> 0, todo |-> <<>>] /\ trace = [on |-> TRUE, calls |-> <<>>]

\* a caller that only nests and toggles, in any order
NextNest ==
    \/ (Len(trace.calls) < MaxCalls /\ enable)
    \/ (Len(trace.calls) < MaxCalls /\ disable)
    \/ (Len(trace.calls) < MaxCalls /\ indent)
    \/ (Len(trace.calls) < MaxCalls /\ undent)

SpecNest == InitLogged /\ [][NextNest]_vars

\* a caller that makes any call, in any order
NextTrace ==
    \/ (Len(trace.calls) < MaxTrace /\ enable)
    \/ (Len(trace.calls) < MaxTrace /\ disable)
    \/ (Len(trace.calls) < MaxTrace /\ enabled)
    \/ (Len(trace.calls) < MaxTrace /\ indent)
    \/ (Len(trace.calls) < MaxTrace /\ undent)
    \/ (Len(trace.calls) < MaxTrace /\ cout)
    \/ \E h \in handles, v \in Inserted : Len(trace.calls) < MaxTrace /\ insert(h, v)
    \/ \E m \in Messages : Len(trace.calls) < MaxTrace /\ println(m)
    \/ \E m \in Messages : Len(trace.calls) < MaxTrace /\ print(m)
    \/ \E m \in Messages : Len(trace.calls) < MaxTrace /\ attention(m)

SpecTrace == InitLogged /\ [][NextTrace]_vars

----------------------------------------------------------------------------
(* Properties *)

\* k copies of a token, written out independently of the logger's own code
RECURSIVE Rep(_, _)
Rep(tok, k) == IF k = 0 THEN <<>> ELSE tok \o Rep(tok, k - 1)

Star == <<"*", " ">>

\* C1: in every reachable state the indent prefix is k >= 0 copies of "* ",
\* so its length is a non-negative multiple of 2.
C1_PrefixIsWholeTokens ==
    /\ \E k \in 0..Len(indent_str) : indent_str = Rep(Star, k)
    /\ Len(indent_str) % 2 = 0

\* C1 witness: undent() has just taken one level off a deeper prefix
C1_Witness ==
    /\ call.op = "undent"
    /\ pc = "running"
    /\ indent_str = <<"*", " ", "*", " ">>

\* C2: undent() called while enabled on an empty prefix kills the process: it does
\* not return normally, and the prefix is neither popped nor of underflowed length.
\* With assert() compiled in the process dies of the assertion; with it compiled
\* out, of the std::length_error resize() throws.
C2_UndentOnEmptyAborts ==
    [][(call'.op = "undent" /\ _enabled /\ indent_str = <<>>)
         => /\ pc' = "aborted"
            /\ call'.ret # "void"
            /\ (~NDEBUG => call'.ret = "assert")
            /\ indent_str' = <<>>]_vars

\* C2 witness: the assertion has fired
C2_Witness ==
    /\ pc = "aborted"
    /\ call.op = "undent"
    /\ call.ret = "assert"
    /\ stdout # <<>>

\* C3: while disabled, print / println / cout and writes through the stream
\* cout() returned append nothing to standard output; indent / undent leave the
\* prefix alone and undent does not abort; attention still appends its output.
C3_DisabledIsSilent ==
    [][~_enabled =>
         /\ (call'.op \in {"print", "println", "cout"} => stdout' = stdout)
         /\ (call'.op = "cout" => call'.ret = "null_out")
         /\ (call'.op = "insert" /\ ~call'.h.flag => stdout' = stdout)
         /\ (call'.op \in {"indent", "undent"} =>
                indent_str' = indent_str /\ pc' = "running" /\ call'.ret = "void")
         /\ (call'.op = "attention" =>
                /\ Len(stdout') > Len(stdout)
                /\ SubSeq(stdout', 1, Len(stdout)) = stdout)]_vars

\* C3 witness: attention has written while disabled, inside a nesting level
C3_Witness ==
    /\ ~_enabled
    /\ indent_str # <<>>
    /\ call.op = "attention"
    /\ Len(stdout) > 16

\* C4: while the logger stays enabled, the prefix is back at its value from before
\* an indent() when the matching undent() returns, and its length is that of the
\* prefix the stretch started from plus 2 per indent() not yet matched.
C4_BalancedPairsRestore ==
    /\ [](_enabled => Len(indent_str) = Len(base) + 2 * Len(saved))
    /\ [][(call'.op = "undent" /\ _enabled /\ saved # <<>>)
            => indent_str' = saved[Len(saved)] /\ pc' = "running"]_vars

\* C4 witness: started from the prefix "* ", two indents, the inner pair just closed
C4_Witness ==
    /\ _enabled
    /\ call.op = "undent"
    /\ base = Star
    /\ Len(saved) = 1
    /\ indent_str = <<"*", " ", "*", " ">>

\* C5: enable(), N nested indent(), N undent(), disable() never aborts and ends
\* with the prefix empty and the flag false, as in the initial state.
C5_RoundTrip ==
    /\ pc = "running"
    /\ (script.todo = <<>> => indent_str = <<>> /\ _enabled = FALSE)

\* C5 witness: the longest scripted round trip has run to its end
C5_Witness ==
    /\ script.n = MaxN
    /\ script.todo = <<>>
    /\ call.op = "disable"

\* the text each message of Messages must come out as, written out by hand
Formatted(fmt, va) ==
    CASE Msg(fmt, va) = MsgValue -> <<"v", "a", "l", "u", "e", "=", "4", "2">>
      [] Msg(fmt, va) = MsgDisk -> <<"d", "i", "s", "k", " ", "f", "u", "l", "l">>
      [] Msg(fmt, va) = MsgMixed -> <<"x", "%", "-", "7">>

\* nesting depth: the number of "* " tokens in the prefix
Depth == Len(indent_str) \div 2

\* C6: while enabled at nesting depth d, println(msg) appends exactly d copies of
\* "* ", the formatted message and one newline; print(msg) appends the same
\* without the newline. The prefix comes once, before the message.
C6_PrintlnText ==
    [][_enabled =>
         /\ (call'.op = "println" =>
                stdout' = stdout \o Rep(Star, Depth) \o Formatted(call'.fmt, call'.va) \o <<"\n">>)
         /\ (call'.op = "print" =>
                stdout' = stdout \o Rep(Star, Depth) \o Formatted(call'.fmt, call'.va))]_vars

\* C6 witness: println("value=%d", 42) after one indent() has written "* value=42\n"
C6_Witness ==
    /\ _enabled
    /\ call.op = "println"
    /\ Len(saved) = 1
    /\ stdout = <<"*", " ", "v", "a", "l", "u", "e", "=", "4", "2", "\n">>

Banner == <<"*", "*", "*", "A", "T", "T", "E", "N", "T", "I", "O", "N", "*", "*", "*", " ">>

\* C7: attention(msg) appends exactly "***ATTENTION*** ", the formatted message and
\* a newline, whatever the flag and the nesting depth; no prefix precedes it.
C7_AttentionText ==
    [][call'.op = "attention" =>
         stdout' = stdout \o Banner \o Formatted(call'.fmt, call'.va) \o <<"\n">>]_vars

\* C7 witness: attention("disk full") while disabled, two levels deep
C7_Witness ==
    /\ ~_enabled
    /\ toggled = "disable"
    /\ Depth = 2
    /\ call.op = "attention"
    /\ stdout = Banner \o <<"d", "i", "s", "k", " ", "f", "u", "l", "l", "\n">>

\* C8: the flag is false initially, changes only in enable() (to true) and
\* disable() (to false), both idempotent, and enabled() returns true exactly when
\* the most recent enable()/disable() call was enable().
C8_FlagMachine ==
    /\ [](_enabled <=> toggled = "enable")
    /\ [][/\ (_enabled' # _enabled => call'.op \in {"enable", "disable"})
          /\ (call'.op = "enable" => _enabled')
          /\ (call'.op = "disable" => ~_enabled')
          /\ (call'.op = "enabled" =>
                call'.ret = (IF toggled = "enable" THEN "true" ELSE "false"))]_vars

\* C8 witness: enabled() has answered true after a later enable(), inside a nesting level
C8_Witness ==
    /\ call.op = "enabled"
    /\ call.ret = "true"
    /\ toggled = "enable"
    /\ base # <<>>

\* C9: print / println / cout / attention / enabled (and writes through a cout()
\* stream) leave the flag and the prefix unchanged; enable / disable leave the
\* prefix unchanged; indent / undent leave the flag unchanged.
C9_Frame ==
    [][/\ (call'.op \in {"print", "println", "cout", "attention", "enabled", "insert"} =>
             _enabled' = _enabled /\ indent_str' = indent_str)
       /\ (call'.op \in {"enable", "disable"} => indent_str' = indent_str)
       /\ (call'.op \in {"indent", "undent"} => _enabled' = _enabled)]_vars

\* C9 witness: disable() has returned with the nesting depth still 2
C9_Witness ==
    /\ call.op = "disable"
    /\ ~_enabled
    /\ Depth = 2

\* the text each value of Inserted must come out as, written out by hand
InsertedText(v) ==
    CASE v = StrArg(<<"h", "i">>) -> <<"h", "i">>
      [] v = IntArg(10) -> <<"1", "0">>

\* C10: cout() called while enabled writes the prefix once, at once, and returns a
\* stream whose writes reach standard output even after disable(); called while
\* disabled it writes nothing and returns a stream whose writes are discarded
\* even after enable().
C10_HandleFixedAtCall ==
    [][/\ (call'.op = "cout" /\ _enabled =>
             /\ stdout' = stdout \o Rep(Star, Depth)
             /\ call'.ret = "std_cout"
             /\ call'.h.flag)
       /\ (call'.op = "cout" /\ ~_enabled =>
             /\ stdout' = stdout
             /\ call'.ret = "null_out"
             /\ ~call'.h.flag)
       /\ (call'.op = "insert" /\ call'.h.flag =>
             stdout' = stdout \o InsertedText(call'.va[1]))
       /\ (call'.op = "insert" /\ ~call'.h.flag => stdout' = stdout)]_vars

\* C10 witness: a stream obtained while enabled was written to after disable()
C10_Witness ==
    /\ ~_enabled
    /\ toggled = "disable"
    /\ call.op = "insert"
    /\ call.h.flag
    /\ stdout = <<"*", " ", "h", "i">>

\* all but the last element of a non-empty sequence
Front(q) == SubSeq(q, 1, Len(q) - 1)

\* the caller's open indent() calls after the calls cs, oldest first: for each,
\* the value the flag had when it was called; an undent() closes the newest one
RECURSIVE OpenFlags(_)
OpenFlags(cs) ==
    IF cs = <<>> THEN <<>>
    ELSE LET before == OpenFlags(Front(cs))
             c == cs[Len(cs)]
         IN  IF c.op = "indent" THEN Append(before, c.en)
             ELSE IF c.op = "undent" /\ before # <<>> THEN Front(before)
             ELSE before

\* every undent() of cs closes an indent() that was open: the calls are properly nested
Paired(cs) ==
    \A i \in DOMAIN cs : cs[i].op = "undent" => OpenFlags(SubSeq(cs, 1, i - 1)) # <<>>

\* every undent() of cs is called with the flag as it was at the indent() it closes
SameFlag(cs) ==
    \A i \in DOMAIN cs :
        LET before == OpenFlags(SubSeq(cs, 1, i - 1))
        IN  (cs[i].op = "undent" /\ before # <<>>) => cs[i].en = before[Len(before)]

\* C11: if the caller's indent()/undent() calls are properly nested, then for any
\* placement of enable()/disable() no undent() hits the empty-prefix assertion and
\* the prefix is empty whenever every pair opened so far has been closed.
C11_PairedAnyToggle ==
    Paired(trace.calls) =>
        /\ pc = "running"
        /\ (OpenFlags(trace.calls) = <<>> => indent_str = <<>>)

\* C11 as amended: if the calls are properly nested and the flag has the same
\* value at each undent() as at the indent() it closes, then no undent() hits the
\* assertion, the depth is the number of open pairs opened while enabled, and the
\* prefix is empty whenever every pair opened so far has been closed.
C11_PairedSameFlag ==
    (Paired(trace.calls) /\ SameFlag(trace.calls)) =>
        /\ pc = "running"
        /\ Depth = Cardinality({i \in DOMAIN OpenFlags(trace.calls) : OpenFlags(trace.calls)[i]})
        /\ (OpenFlags(trace.calls) = <<>> => indent_str = <<>>)

\* C11 witness: a pair opened while enabled, the flag switched off and on again
\* inside it, and the pair closed with the prefix back to empty
C11_Witness ==
    /\ Paired(trace.calls)
    /\ SameFlag(trace.calls)
    /\ OpenFlags(trace.calls) = <<>>
    /\ call.op = "undent"
    /\ _enabled
    /\ \E i \in DOMAIN trace.calls : \E j \in DOMAIN trace.calls :
          /\ i < j
          /\ trace.calls[i].op = "indent" /\ trace.calls[i].en
          /\ trace.calls[j].op = "disable"

\* the number of calls of cs to op that were made with the flag enabled and returned
EnabledCalls(cs, op) ==
    Cardinality({i \in DOMAIN cs : cs[i].op = op /\ cs[i].en /\ cs[i].ret = "void"})

\* C12: in every reachable state the nesting depth (prefix length / 2) is the
\* number of indent() calls made while enabled minus the number of undent() calls
\* made while enabled (that returned); calls made while disabled do not count,
\* so the depth can differ from the caller's own nesting level.
C12_DepthCountsEnabledCalls ==
    /\ Len(indent_str) = 2 * Depth
    /\ Depth = EnabledCalls(trace.calls, "indent") - EnabledCalls(trace.calls, "undent")

\* C12 witness: properly nested calls, every pair closed, yet the depth is 1:
\* the flag was switched off inside an open pair
C12_Witness ==
    /\ Paired(trace.calls)
    /\ OpenFlags(trace.calls) = <<>>
    /\ Depth = 1
    /\ call.op = "undent"
    /\ ~_enabled

\* C13: while the process runs, enable / disable / enabled / indent / print /
\* println / cout / attention can always be called and always return; the only
\* step that ends the process is undent() with the flag enabled and the prefix
\* empty; undent() with the flag enabled and a non-empty prefix removes exactly
\* the last 2 characters and returns.
C13_OnlyUndentOnEmptyAborts ==
    /\ [](pc = "running" =>
            /\ ENABLED enable
            /\ ENABLED disable
            /\ ENABLED enabled
            /\ ENABLED indent
            /\ ENABLED cout
            /\ \A m \in Messages : ENABLED println(m) /\ ENABLED print(m) /\ ENABLED attention(m))
    /\ [][/\ (pc' = "aborted" => call'.op = "undent" /\ _enabled /\ indent_str = <<>>)
          /\ (call'.op # "undent" => pc' = "running" /\ call'.ret \notin {"assert", "length_error"})
          /\ (call'.op = "undent" /\ _enabled /\ indent_str # <<>> =>
                /\ pc' = "running"
                /\ call'.ret = "void"
                /\ Len(indent_str') = Len(indent_str) - 2
                /\ indent_str' = SubSeq(indent_str, 1, Len(indent_str) - 2))]_vars

\* C13 witness: enable(), indent(), then undent() has returned with the prefix
\* "* " removed
C13_Witness ==
    /\ pc = "running"
    /\ _enabled
    /\ call.op = "undent"
    /\ call.ret = "void"
    /\ Len(trace.calls) = 3
    /\ trace.calls[2].op = "indent"
    /\ trace.calls[2].en
    /\ indent_str = <<>>

\* what a call sequence must lead to, worked out from the calls and their
\* arguments alone: the flag, the nesting depth, the text on standard output and
\* whether the process has been killed
RECURSIVE Outcome(_)
Outcome(cs) ==
    IF cs = <<>> THEN [en |-> FALSE, depth |-> 0, out |-> <<>>, dead |-> FALSE]
    ELSE LET r == Outcome(Front(cs))
             c == cs[Len(cs)]
             text == IF c.op \in {"println", "print", "attention"}
                     THEN Formatted(c.fmt, c.va) ELSE <<>>
         IN  CASE r.dead -> r
               [] c.op = "enable" -> [r EXCEPT !.en = TRUE]
               [] c.op = "disable" -> [r EXCEPT !.en = FALSE]
               [] c.op = "indent" -> IF r.en THEN [r EXCEPT !.depth = @ + 1] ELSE r
               [] c.op = "undent" ->
                    IF ~r.en THEN r
                    ELSE IF r.depth = 0 THEN [r EXCEPT !.dead = TRUE]
                    ELSE [r EXCEPT !.depth = @ - 1]
               [] c.op = "println" ->
                    IF r.en THEN [r EXCEPT !.out = @ \o Rep(Star, r.depth) \o text \o <<"\n">>]
                    ELSE r
               [] c.op = "print" ->
                    IF r.en THEN [r EXCEPT !.out = @ \o Rep(Star, r.depth) \o text] ELSE r
               [] c.op = "attention" -> [r EXCEPT !.out = @ \o Banner \o text \o <<"\n">>]
               [] c.op = "cout" -> IF r.en THEN [r EXCEPT !.out = @ \o Rep(Star, r.depth)] ELSE r
               [] c.op = "insert" ->
                    IF c.h.flag THEN [r EXCEPT !.out = @ \o InsertedText(c.va[1])] ELSE r
               [] OTHER -> r

\* C14: the flag, the prefix and the text on standard output are determined by
\* the sequence of calls alone (so two runs of the same sequence agree on them),
\* and standard output only ever grows: nothing written is taken back, by a
\* later disable() or otherwise.
C14_OutputFollowsCalls ==
    /\ [](LET r == Outcome(trace.calls)
          IN  /\ _enabled = r.en
              /\ indent_str = Rep(Star, r.depth)
              /\ stdout = r.out
              /\ (pc = "aborted") = r.dead)
    /\ [][/\ Len(stdout') >= Len(stdout)
          /\ SubSeq(stdout', 1, Len(stdout)) = stdout]_vars

\* C14 witness: text printed while enabled is still on standard output after
\* disable()
C14_Witness ==
    /\ call.op = "disable"
    /\ ~_enabled
    /\ Len(trace.calls) = 3
    /\ trace.calls[2].op = "println"
    /\ trace.calls[2].en
    /\ stdout = <<"v", "a", "l", "u", "e", "=", "4", "2", "\n">>

====
